---------------------------- MODULE Spec2Model ----------------------------
(***************************************************************************)
(* The letter arrangement game of the vocabulary application.              *)
(*                                                                         *)
(*   - LetterBank (components/drawing/LetterBank) hosted by SpellingPage   *)
(*     (app/student/[setId]/spell/[wordId]/page.tsx);                      *)
(*   - SpellingInterface hosted by SceneSilhouette, hosted by ScenesPage.  *)
(*                                                                         *)
(* A JavaScript string is a sequence of one-character strings.  Array      *)
(* indices are 1-based here (0-based in the source); findIndex's -1 is 0.  *)
(* React runs the effects of a commit before it handles the next event,    *)
(* so every handler is guarded by "no effect is pending", and the effects  *)
(* of one commit run as one step, on the values of the render that         *)
(* scheduled them.                                                         *)
(***************************************************************************)
EXTENDS Naturals, Integers, Sequences, FiniteSets, Bags, TLC

VARIABLES
    route,              \* the mounted page: "spell" (SpellingPage), "scenes"
                        \* (ScenesPage with the SceneSilhouette that opens the
                        \* spelling modal, a scene being selected), "explore"
                        \* (ScenesPage with the SceneSilhouette of
                        \* components/scene, from the scene selection on),
                        \* "journey" (StudentJourneyPage), "home" (the home
                        \* page, with VolumeControl), "draw" (DrawingPage) or
                        \* "hintcard" (a page showing a HintCard)
    \* DrawingPage
    dpWord,             \* NULL while word is null, else whether it has a hint_text
    dpStudentId,
    showHint,
    usedHint,
    recognizing,
    result,             \* NoResult for null, else the result shown
    submissions,        \* the drawings submitted so far, in order: how far the
                        \* handling of each has got, and the usedHint its
                        \* handleDrawingSubmit captured
    \* HintCard
    isOpen,
    hasUsedHint,
    \* observation (history) variables of these two
    hintShown,          \* the hint of DrawingPage has been shown
    recognised,         \* the confidence the recogniser returned for result, in
                        \* thousandths, -1 if result is not a recognition
    onUseHintCalls,     \* onUseHint calls made by HintCard, saturating at 2
    \* ScenesPage, scene selection, and the SceneSilhouette of components/scene
    selectedScene,      \* 0 for null, else the scene
    sceneLoads,         \* the scenes whose loadSceneObjects call is awaiting its rows
    clickFeedback,      \* "null", or whether the last click was correct
    clickTimers,        \* pending setTimeout callbacks of handleSceneClick: a bag
    \* StudentJourneyPage
    words,              \* ids of the words of the word set, in order_index order
    currentWordIndex,
    progress,           \* word id -> [drawn, spelled], for the ids with an entry
    loading,
    jStudentId,         \* studentId of StudentJourneyPage
    sessionStorage,     \* the item 'studentId', "null" if unset
    dbWordAttempts,     \* rows of word_attempts with is_correct = true
    dbSceneAttempts,    \* rows of scene_attempts with is_correct = true
    dbStudents,         \* number of rows the session has inserted into students
    loads,              \* the loadStudentProgress calls made so far, in order:
                        \* what each is awaiting and the sid it holds
    \* VolumeControl and lib/sound-effects
    isMuted,
    localStorage,       \* the items 'soundEnabled' and 'sounds-disabled', "null" if unset
    prefersReducedMotion,
    vcEffects,          \* TRUE while the mount effect of VolumeControl is pending
    lastSound,          \* what the playSound call of the last step did: "played",
                        \* "silent", or "none" if it made none
    \* SpellingPage
    word,               \* word.text of the loaded word, NoWord while word is null
    studentId,          \* '' until loadStudentId resolves
    completed,
    wordAttempts,       \* rows inserted into word_attempts
    \* LetterBank
    placedLetters,
    availableLetters,
    isComplete,
    isCorrect,
    lbEffects,          \* effects of LetterBank scheduled by the last commit
    \* ScenesPage
    sceneObjects,       \* found flag of each scene object
    currentObjectIndex,
    scStudentId,
    sceneAttempts,      \* rows inserted into scene_attempts, per object
    \* SceneSilhouette
    spellingObject,     \* 0 for null, else the object whose name is being spelled
    \* SpellingInterface
    selectedLetters,
    siAvailableLetters,
    feedback,
    siEffects,          \* TRUE while the scramble effect of the last commit is pending
    timers,             \* pending setTimeout callbacks: a bag of timers
    \* observation (history) variables
    lastEval,           \* the evaluation run by the last step (logged: it inserted
                        \* a row into the attempts table), NoEval if none
    lbCalls,            \* onComplete calls made on the current value of placedLetters
    lastMove,           \* the last letter move (for a placement: the slots and the
                        \* multiset of pool tiles before it), NoMove after any
                        \* other user action
    resetsInRow,        \* consecutive handleReset calls, saturating at 2
    reported,           \* the scene objects for which onCorrect has run
    recovery            \* "failed" after an evaluation found the spelling wrong,
                        \* "placing" once a letter was removed after that,
                        \* "solved" once a spelling was found right after that,
                        \* else "none"

vars == << route, dpWord, dpStudentId, showHint, usedHint, recognizing, result,
           submissions, isOpen, hasUsedHint, hintShown, recognised, onUseHintCalls,
           selectedScene, sceneLoads, clickFeedback, clickTimers, isMuted, localStorage, prefersReducedMotion, vcEffects, lastSound,
           words, currentWordIndex, progress, loading, jStudentId, sessionStorage,
           dbWordAttempts, dbSceneAttempts, dbStudents, loads,
           word, studentId, completed, wordAttempts,
           placedLetters, availableLetters, isComplete, isCorrect, lbEffects,
           sceneObjects, currentObjectIndex, scStudentId, sceneAttempts,
           spellingObject, selectedLetters, siAvailableLetters, feedback,
           siEffects, timers, lastEval, lbCalls, lastMove, resetsInRow, reported,
           recovery >>

drawVars == << dpWord, dpStudentId, showHint, usedHint, recognizing, result,
              submissions, isOpen, hasUsedHint, hintShown, recognised,
              onUseHintCalls >>

exploreVars == << selectedScene, sceneLoads, clickFeedback, clickTimers >>

homeVars == << isMuted, localStorage, prefersReducedMotion, vcEffects, lastSound >>

journeyVars == << words, currentWordIndex, progress, loading, jStudentId,
                  sessionStorage, dbWordAttempts, dbSceneAttempts, dbStudents,
                  loads >>

spellVars == << word, studentId, completed, wordAttempts,
                placedLetters, availableLetters, isComplete, isCorrect,
                lbEffects, lbCalls >>

sceneVars == << sceneObjects, currentObjectIndex, scStudentId, sceneAttempts,
                spellingObject, selectedLetters, siAvailableLetters, feedback,
                siEffects, timers, reported >>

-----------------------------------------------------------------------------
(* Bounds *)

\* No further word is loaded and no further letter is placed in LetterBank once
\* this many rows were logged.
MaxAttempts == 2

\* handleCheck registers no further timer while this many are pending.
MaxTimers == 2

\* The load effect of StudentJourneyPage runs at most this many times.
MaxLoads == 2

\* No further drawing is submitted once this many were.
MaxSubmissions == 2

-----------------------------------------------------------------------------
(* Values *)

NULL == "null"
NoWord == "noword"
NoEval == [widget |-> "none", slots |-> << >>, target |-> << >>, correct |-> FALSE,
           logged |-> FALSE]
NoResult == [isCorrect |-> FALSE, confidence |-> 0, feedback |-> NULL]
NoMove == [op |-> "none", slot |-> 0, slots |-> << >>, pool |-> << >>]

\* The target words the word source may supply to LetterBank: words.text is any
\* text, the empty one and one with an embedded space included.
Words == { << >>, <<"b", "e", "e">>, <<"T", "o", " ", "o">> }

\* object_name of the scene objects of the selected scene.
ObjectNames == << <<"B", "e">>, <<"o", "x">> >>

NumObjects == Len(ObjectNames)

StudentIds == { "", "s1" }

\* setTimeout delays of SpellingInterface.handleCheck and
\* SceneSilhouette.handleSpellingCorrect, in milliseconds.
CorrectDelayMs == 1500
IncorrectDelayMs == 1000
CloseDelayMs == 500

\* Time advances in steps of the shortest delay.
TickMs == CloseDelayMs
Ticks(ms) == ms \div TickMs

-----------------------------------------------------------------------------
(* String and array helpers *)

\* String.prototype.toLowerCase on one character.
LowerChar(c) ==
    CASE c = "T" -> "t"
      [] c = "B" -> "b"
      [] c = "O" -> "o"
      [] OTHER -> c

\* String.prototype.toLowerCase.
ToLowerCase(s) == [i \in 1..Len(s) |-> LowerChar(s[i])]

\* Array.prototype.join(''): null joins as the empty string.
Join(arr) == SelectSeq(arr, LAMBDA x : x # NULL)

\* Array(n).fill(null)
NullArray(n) == [i \in 1..n |-> NULL]

\* Mutant of RemoveAt: the element after the indexed one is removed (the last
\* one stays when there is none after it).
RemoveAt_next(arr, index) ==
    [i \in 1..(Len(arr) - 1) |-> IF i < index + 1 THEN arr[i] ELSE arr[i + 1]]

\* arr.splice(index, 1) / arr.filter((_, i) => i !== index)
RemoveAt(arr, index) ==
    [i \in 1..(Len(arr) - 1) |-> IF i < index THEN arr[i] ELSE arr[i + 1]]

\* Mutant of Shuffles: the spaces are left out of the tiles.
Shuffles_noSpaces(letters) ==
    LET tiles == SelectSeq(letters, LAMBDA c : c # " ")
    IN  { [i \in 1..Len(tiles) |-> tiles[p[i]]] : p \in Permutations(1..Len(tiles)) }

\* [...letters].sort(() => Math.random() - 0.5): some rearrangement of letters.
Shuffles(letters) ==
    { [i \in 1..Len(letters) |-> letters[p[i]]] :
        p \in Permutations(1..Len(letters)) }

\* String(b)
String(b) == IF b THEN "true" ELSE "false"

\* The characters of an array as a multiset.
BagOf(arr) ==
    LET chars == { arr[i] : i \in 1..Len(arr) }
    IN  [c \in chars |-> Cardinality({ i \in 1..Len(arr) : arr[i] = c })]

\* Number of occupied slots.
Occupied(placed) == Cardinality({ i \in 1..Len(placed) : placed[i] # NULL })

-----------------------------------------------------------------------------
(* SpellingPage: the parent of LetterBank *)

\* LetterBank is rendered once word is loaded (the early return while !word).
LB_mounted == route = "spell" /\ word # NoWord

\* No effect of LetterBank is pending: the next event can be handled.
LB_quiescent == LB_mounted /\ lbEffects = {}

\* handleComplete goes past its early return: word, studentId and isCorrect all truthy.
SP_handleCompleteLogs(correct) == word # NoWord /\ studentId # "" /\ correct

\* setWord(data) when loadWord resolves.  The first load mounts LetterBank with
\* its initial state; a later one re-renders it with a new targetWord.
SP_setWord(w) ==
    /\ route = "spell"
    /\ lbEffects = {}
    /\ wordAttempts < MaxAttempts
    /\ w # word
    /\ word' = w
    /\ IF word = NoWord
         THEN /\ placedLetters' = NullArray(Len(w))
              /\ availableLetters' = << >>
              /\ isComplete' = FALSE
              /\ isCorrect' = FALSE
         ELSE UNCHANGED << placedLetters, availableLetters, isComplete, isCorrect >>
    /\ lbEffects' = {"shuffle", "check"}
    /\ lbCalls' = IF word = NoWord THEN 0 ELSE lbCalls
    /\ lastEval' = NoEval
    /\ lastMove' = NoMove
    /\ resetsInRow' = 0
    /\ recovery' = "none"
    /\ UNCHANGED << route, drawVars, exploreVars, homeVars, journeyVars, studentId, completed, wordAttempts, sceneVars >>

\* setStudentId(data[0].id) when loadStudentId resolves with a student.  The
\* re-render hands LetterBank a new onComplete (handleComplete is created per render).
SP_setStudentId ==
    /\ route = "spell"
    /\ lbEffects = {}
    /\ studentId = ""
    /\ studentId' = "s1"
    /\ lbEffects' = IF word # NoWord THEN {"check"} ELSE {}
    /\ lastEval' = NoEval
    /\ UNCHANGED << route, drawVars, exploreVars, homeVars, journeyVars, word, completed, wordAttempts, placedLetters,
                    availableLetters, isComplete, isCorrect, lbCalls, lastMove,
                    resetsInRow, recovery, sceneVars >>

-----------------------------------------------------------------------------
(* LetterBank *)

\* Mutant of LB_hasAllLetters: some instead of every.
LB_hasAllLetters_some(placed) == \E i \in 1..Len(placed) : placed[i] # NULL

\* placedLetters.every((letter) => letter !== null)
LB_hasAllLetters(placed) == \A i \in 1..Len(placed) : placed[i] # NULL

\* Mutant of LB_correct: the target word is compared as given.
LB_correct_targetAsGiven(placed, targetWord) == ToLowerCase(Join(placed)) = targetWord

\* spelledWord.toLowerCase() === targetWord.toLowerCase()
LB_correct(placed, targetWord) == ToLowerCase(Join(placed)) = ToLowerCase(targetWord)

\* Mutant of LB_emptyIndex: the last empty slot is found.
LB_emptyIndex_last(placed) ==
    IF \E i \in 1..Len(placed) : placed[i] = NULL
      THEN CHOOSE i \in 1..Len(placed) :
             /\ placed[i] = NULL
             /\ \A j \in (i + 1)..Len(placed) : placed[j] # NULL
      ELSE 0

\* placedLetters.findIndex((l) => l === null), 0 when there is none
LB_emptyIndex(placed) ==
    IF \E i \in 1..Len(placed) : placed[i] = NULL
      THEN CHOOSE i \in 1..Len(placed) :
             /\ placed[i] = NULL
             /\ \A j \in 1..(i - 1) : placed[j] # NULL
      ELSE 0

\* Mutant of LB_resetShown: the button is rendered whenever the word is complete.
LB_resetShown_whenComplete == isComplete

\* The reset button is rendered.
LB_resetShown == isComplete /\ ~isCorrect

\* Mutant of LB_returnToBank: the removed letter is not put back.
LB_returnToBank_lost(available, letter) == available

\* setAvailableLetters([...availableLetters, letter])
LB_returnToBank(available, letter) == Append(available, letter)

\* Mutant of LB_placedLettersChanged: placedLetters is missing from the
\* dependencies of the completion effect.
LB_placedLettersChanged_notListed == {}

\* The effects a commit schedules when only placedLetters was replaced: the
\* completion effect lists placedLetters among its dependencies.
LB_placedLettersChanged == {"check"}

\* Mutant of LB_uncompleted: the else branch of the completion effect leaves the
\* flag as it is.
LB_uncompleted_kept(flag) == flag

\* setIsComplete(false) / setIsCorrect(false) in the else branch of the
\* completion effect: the value the flag gets.
LB_uncompleted(flag) == FALSE

\* The two effects of LetterBank, run after a commit that changed their
\* dependencies: the shuffle effect ([targetWord]) and then the completion effect
\* ([placedLetters, targetWord, onComplete]), both on the rendered values.  The
\* state updates are applied together afterwards, the later one winning.
LB_runEffects ==
    /\ LB_mounted
    /\ lbEffects # {}
    /\ LET runShuffle == "shuffle" \in lbEffects
           runCheck == "check" \in lbEffects
           hasAllLetters == LB_hasAllLetters(placedLetters)
           correct == LB_correct(placedLetters, word)
           called == runCheck /\ hasAllLetters
           logs == called /\ SP_handleCompleteLogs(correct)
       IN  /\ \E shuffled \in (IF runShuffle THEN Shuffles(word) ELSE {availableLetters}) :
                availableLetters' = shuffled
           /\ placedLetters' = IF runShuffle THEN NullArray(Len(word)) ELSE placedLetters
           /\ isComplete' = IF runCheck
                             THEN IF hasAllLetters THEN TRUE
                                  ELSE LB_uncompleted(isComplete)
                             ELSE FALSE
           /\ isCorrect' = IF runCheck
                            THEN IF hasAllLetters THEN correct
                                 ELSE LB_uncompleted(isCorrect)
                            ELSE FALSE
           /\ completed' = (completed \/ logs)
           /\ wordAttempts' = IF logs THEN wordAttempts + 1 ELSE wordAttempts
           \* the completion effect runs again when placedLetters was replaced or
           \* when SpellingPage re-rendered (setCompleted changed its state)
           /\ lbEffects' = IF runShuffle THEN LB_placedLettersChanged
                           ELSE IF logs /\ ~completed THEN {"check"} ELSE {}
           /\ lastEval' = IF called
                            THEN [widget |-> "LetterBank", slots |-> placedLetters,
                                  target |-> word, correct |-> correct,
                                  logged |-> logs]
                            ELSE NoEval
           /\ lbCalls' = IF runShuffle THEN 0
                         ELSE IF called THEN lbCalls + 1 ELSE lbCalls
           /\ lastMove' = IF runShuffle THEN NoMove ELSE lastMove
           /\ resetsInRow' = IF runShuffle THEN 0 ELSE resetsInRow
           /\ recovery' = IF runShuffle THEN "none"
                           ELSE IF called /\ ~correct THEN "failed"
                           ELSE IF called /\ recovery = "placing" THEN "solved"
                           ELSE recovery
    /\ UNCHANGED << route, drawVars, exploreVars, homeVars, journeyVars, word, studentId, sceneVars >>

\* The fromBank branch of handleLetterClick: the slots and the bank it sets, as
\* they are when no slot is empty.
LB_placeFromBank(placed, available, letter, index) ==
    LET emptyIndex == LB_emptyIndex(placed)
    IN  IF emptyIndex # 0
          THEN [placed |-> [placed EXCEPT ![emptyIndex] = letter],
                available |-> RemoveAt(available, index)]
          ELSE [placed |-> placed, available |-> available]

\* handleLetterClick(letter, fromBank, index)
LB_handleLetterClick(letter, fromBank, index) ==
    LET emptyIndex == LB_emptyIndex(placedLetters)
        fromBankSets == LB_placeFromBank(placedLetters, availableLetters, letter, index)
    IN  /\ IF fromBank
             THEN IF emptyIndex # 0
                    THEN /\ placedLetters' = fromBankSets.placed
                         /\ availableLetters' = fromBankSets.available
                         /\ lbEffects' = LB_placedLettersChanged
                         /\ lbCalls' = 0
                         /\ lastMove' = [op |-> "place", slot |-> emptyIndex,
                                         slots |-> placedLetters,
                                         pool |-> BagOf(availableLetters)]
                         /\ UNCHANGED recovery
                    ELSE /\ UNCHANGED << placedLetters, availableLetters, lbEffects,
                                         lbCalls, recovery >>
                         /\ lastMove' = NoMove
             ELSE /\ placedLetters' = [placedLetters EXCEPT ![index] = NULL]
                  /\ availableLetters' = LB_returnToBank(availableLetters, letter)
                  /\ lbEffects' = LB_placedLettersChanged
                  /\ lbCalls' = 0
                  /\ lastMove' = IF lastMove.op = "place" /\ lastMove.slot = index
                                   THEN [lastMove EXCEPT !.op = "undo"]
                                   ELSE [NoMove EXCEPT !.op = "remove", !.slot = index]
                  /\ recovery' = IF recovery = "failed" THEN "placing" ELSE recovery
        /\ lastEval' = NoEval
        /\ resetsInRow' = 0
        /\ UNCHANGED << route, drawVars, exploreVars, homeVars, journeyVars, word, studentId, completed, wordAttempts,
                        isComplete, isCorrect, sceneVars >>

\* A letter button of the bank is clicked.
LB_bankClick(index) ==
    /\ LB_quiescent
    /\ wordAttempts < MaxAttempts
    /\ index \in 1..Len(availableLetters)
    /\ LB_handleLetterClick(availableLetters[index], TRUE, index)

\* A slot is clicked: letter && handleLetterClick(letter, false, index).
LB_slotClick(index) ==
    /\ LB_quiescent
    /\ index \in 1..Len(placedLetters)
    /\ placedLetters[index] # NULL
    /\ LB_handleLetterClick(placedLetters[index], FALSE, index)

\* handleReset, behind the button rendered when isComplete && !isCorrect
LB_handleReset ==
    /\ LB_quiescent
    /\ LB_resetShown
    /\ availableLetters' \in Shuffles(word)
    /\ placedLetters' = NullArray(Len(word))
    /\ isComplete' = FALSE
    /\ isCorrect' = FALSE
    /\ lbEffects' = LB_placedLettersChanged
    /\ lbCalls' = 0
    /\ lastEval' = NoEval
    /\ lastMove' = NoMove
    /\ resetsInRow' = IF resetsInRow < 2 THEN resetsInRow + 1 ELSE 2
    /\ recovery' = "none"
    /\ UNCHANGED << route, drawVars, exploreVars, homeVars, journeyVars, word, studentId, completed, wordAttempts, sceneVars >>

-----------------------------------------------------------------------------
(* SceneSilhouette and SpellingInterface, hosted by ScenesPage *)

\* The SpellingInterface modal is rendered while spellingObject is not null.
SI_mounted == route = "scenes" /\ spellingObject # 0

\* No effect of SpellingInterface is pending.
SI_quiescent == SI_mounted /\ ~siEffects

\* The word prop: spellingObject.objectName.
SI_word == ObjectNames[spellingObject]

\* attempt.toLowerCase() === word.toLowerCase()
SI_correct(selected, w) == ToLowerCase(Join(selected)) = ToLowerCase(w)

\* The Check button is enabled.
SI_checkEnabled == ~(Len(selectedLetters) # Len(SI_word) \/ feedback = "correct")

\* The Reset button is enabled.
SI_resetEnabled == ~(feedback = "correct")

\* A pending setTimeout callback: its kind, the ticks left until it is due, and
\* the values its closure captured and reads: the spellingObject (obj) and the
\* currentObjectIndex (idx) of the render that created it.  own records that the
\* SpellingInterface whose Check button led to it is still mounted.
Timer(kind, ms, obj, idx, own) ==
    [kind |-> kind, left |-> Ticks(ms), obj |-> obj, idx |-> idx, own |-> own]

\* Copies of the timer t in the bag ts.
Copies(ts, t) == IF t \in DOMAIN ts THEN ts[t] ELSE 0

\* After SpellingInterface unmounts, setFeedback of that instance does nothing:
\* its pending "incorrect" timers are forgotten.  The other timers stay pending,
\* left behind by a session that is over.
Orphaned(ts) ==
    LET kept == { u \in DOMAIN ts : u.kind # "incorrect" }
    IN  [v \in { [u EXCEPT !.own = FALSE] : u \in kept } |->
            Copies(ts, v) + Copies(ts, [v EXCEPT !.own = TRUE])]

\* handleSilhouetteClick(obj): the silhouette of an unfound object is clicked (the
\* open modal covers the scene).  SpellingInterface mounts with its initial state.
SS_handleSilhouetteClick(obj) ==
    /\ route = "scenes"
    /\ spellingObject = 0
    /\ obj \in 1..NumObjects
    /\ ~sceneObjects[obj]
    /\ spellingObject' = obj
    /\ selectedLetters' = << >>
    /\ siAvailableLetters' = << >>
    /\ feedback' = "null"
    /\ siEffects' = TRUE
    /\ lastEval' = NoEval
    /\ lastMove' = NoMove
    /\ resetsInRow' = 0
    /\ recovery' = "none"
    /\ UNCHANGED << route, drawVars, exploreVars, homeVars, journeyVars, spellVars, reported, sceneObjects, currentObjectIndex, scStudentId,
                    sceneAttempts, timers >>

\* The scramble effect ([word]) of SpellingInterface.
SI_runEffects ==
    /\ SI_mounted
    /\ siEffects
    /\ siAvailableLetters' \in Shuffles(ToLowerCase(SI_word))
    /\ selectedLetters' = << >>
    /\ feedback' = "null"
    /\ siEffects' = FALSE
    /\ lastEval' = NoEval
    /\ UNCHANGED << route, drawVars, exploreVars, homeVars, journeyVars, spellVars, reported, sceneObjects, currentObjectIndex, scStudentId,
                    sceneAttempts, spellingObject, timers, lastMove, resetsInRow,
                    recovery >>

\* Mutant of SI_select: the letter is put in front.
SI_select_inFront(selected, letter) == <<letter>> \o selected

\* [...selectedLetters, letter]
SI_select(selected, letter) == Append(selected, letter)

\* handleLetterClick(letter, index)
SI_handleLetterClick(letter, index) ==
    /\ selectedLetters' = SI_select(selectedLetters, letter)
    /\ siAvailableLetters' = RemoveAt(siAvailableLetters, index)
    /\ lastMove' = [op |-> "place", slot |-> Len(selectedLetters) + 1,
                    slots |-> selectedLetters,
                    pool |-> BagOf(siAvailableLetters)]
    /\ lastEval' = NoEval
    /\ resetsInRow' = 0
    /\ UNCHANGED << route, drawVars, exploreVars, homeVars, journeyVars, spellVars, reported, sceneObjects, currentObjectIndex, scStudentId,
                    sceneAttempts, spellingObject, feedback, siEffects, timers,
                    recovery >>

\* An available letter button is clicked.
SI_availableClick(index) ==
    /\ SI_quiescent
    /\ index \in 1..Len(siAvailableLetters)
    /\ SI_handleLetterClick(siAvailableLetters[index], index)

\* handleRemoveLetter(index), behind every selected letter button
SI_handleRemoveLetter(index) ==
    /\ SI_quiescent
    /\ index \in 1..Len(selectedLetters)
    /\ LET letter == selectedLetters[index]
       IN  /\ selectedLetters' = RemoveAt(selectedLetters, index)
           /\ siAvailableLetters' = Append(siAvailableLetters, letter)
    /\ lastMove' = IF lastMove.op = "place" /\ lastMove.slot = index
                     THEN [lastMove EXCEPT !.op = "undo"]
                     ELSE [NoMove EXCEPT !.op = "remove", !.slot = index]
    /\ lastEval' = NoEval
    /\ resetsInRow' = 0
    /\ recovery' = IF recovery = "failed" THEN "placing" ELSE recovery
    /\ UNCHANGED << route, drawVars, exploreVars, homeVars, journeyVars, spellVars, reported, sceneObjects, currentObjectIndex, scStudentId,
                    sceneAttempts, spellingObject, feedback, siEffects, timers >>

\* handleCheck, behind the Check button
SI_handleCheck ==
    /\ SI_quiescent
    /\ SI_checkEnabled
    /\ BagCardinality(timers) < MaxTimers
    /\ LET correct == SI_correct(selectedLetters, SI_word)
       IN  /\ IF correct
                THEN /\ feedback' = "correct"
                     /\ timers' = timers (+) SetToBag({Timer("correct", CorrectDelayMs,
                                                               spellingObject,
                                                               currentObjectIndex,
                                                               TRUE)})
                ELSE /\ feedback' = "incorrect"
                     /\ timers' = timers (+) SetToBag({Timer("incorrect", IncorrectDelayMs,
                                                               0, 0, TRUE)})
           /\ lastEval' = [widget |-> "SpellingInterface", slots |-> selectedLetters,
                           target |-> SI_word, correct |-> correct, logged |-> FALSE]
           /\ recovery' = IF ~correct THEN "failed"
                           ELSE IF recovery = "placing" THEN "solved" ELSE recovery
    /\ lastMove' = NoMove
    /\ resetsInRow' = 0
    /\ UNCHANGED << route, drawVars, exploreVars, homeVars, journeyVars, spellVars, reported, sceneObjects, currentObjectIndex, scStudentId,
                    sceneAttempts, spellingObject, selectedLetters,
                    siAvailableLetters, siEffects >>

\* Mutant of SI_handleReset: setFeedback(null) is missing.
SI_handleReset_keepsFeedback ==
    /\ SI_quiescent
    /\ SI_resetEnabled
    /\ siAvailableLetters' \in Shuffles(ToLowerCase(SI_word))
    /\ selectedLetters' = << >>
    /\ lastEval' = NoEval
    /\ lastMove' = NoMove
    /\ resetsInRow' = IF resetsInRow < 2 THEN resetsInRow + 1 ELSE 2
    /\ recovery' = "none"
    /\ UNCHANGED << route, drawVars, exploreVars, homeVars, journeyVars, spellVars, reported, sceneObjects, currentObjectIndex, scStudentId,
                    sceneAttempts, spellingObject, feedback, siEffects, timers >>

\* handleReset, behind the Reset button
SI_handleReset ==
    /\ SI_quiescent
    /\ SI_resetEnabled
    /\ siAvailableLetters' \in Shuffles(ToLowerCase(SI_word))
    /\ selectedLetters' = << >>
    /\ feedback' = "null"
    /\ lastEval' = NoEval
    /\ lastMove' = NoMove
    /\ resetsInRow' = IF resetsInRow < 2 THEN resetsInRow + 1 ELSE 2
    /\ recovery' = "none"
    /\ UNCHANGED << route, drawVars, exploreVars, homeVars, journeyVars, spellVars, reported, sceneObjects, currentObjectIndex, scStudentId,
                    sceneAttempts, spellingObject, siEffects, timers >>

\* setSpellingObject(null): SpellingInterface unmounts.
SS_closeModal ==
    /\ spellingObject' = 0
    /\ selectedLetters' = << >>
    /\ siAvailableLetters' = << >>
    /\ feedback' = "null"
    /\ siEffects' = FALSE

\* handleSpellingClose, behind the X button and the backdrop
SS_handleSpellingClose ==
    /\ SI_quiescent
    /\ SS_closeModal
    /\ timers' = Orphaned(timers)
    /\ lastEval' = NoEval
    /\ lastMove' = NoMove
    /\ resetsInRow' = 0
    /\ recovery' = "none"
    /\ UNCHANGED << route, drawVars, exploreVars, homeVars, journeyVars, spellVars, reported, sceneObjects, currentObjectIndex, scStudentId,
                    sceneAttempts >>

\* A timer of the page is due and no effect is pending.  Timers due within the
\* same tick run in either order.
Due(t) ==
    /\ route = "scenes"
    /\ ~siEffects
    /\ BagIn(t, timers)
    /\ t.left = 0

\* setTimeout(() => setFeedback(null), 1000) of handleCheck fires.
SI_incorrectTimeout(t) ==
    /\ Due(t)
    /\ t.kind = "incorrect"
    /\ feedback' = "null"
    /\ timers' = timers (-) SetToBag({t})
    /\ lastEval' = NoEval
    /\ UNCHANGED << route, drawVars, exploreVars, homeVars, journeyVars, spellVars, reported, sceneObjects, currentObjectIndex, scStudentId,
                    sceneAttempts, spellingObject, selectedLetters,
                    siAvailableLetters, siEffects, lastMove, resetsInRow, recovery >>

\* ScenesPage.handleObjectClick(objectId), on the sceneObjects and
\* currentObjectIndex of the render that created the callback: whether it goes
\* past its early return.
SC_handleObjectClickMarks(obj, idx) ==
    LET objectIndex == obj - 1
    IN  ~(obj \notin 1..NumObjects \/ objectIndex # idx)

\* setTimeout(() => onCorrect(), 1500) of handleCheck fires: onCorrect is
\* SceneSilhouette.handleSpellingCorrect, which calls onObjectClick and
\* registers the closing timer.
SI_correctTimeout(t) ==
    /\ Due(t)
    /\ t.kind = "correct"
    /\ LET obj == t.obj
           idx == t.idx
           marks == SC_handleObjectClickMarks(obj, idx)
       IN  /\ sceneObjects' = IF marks THEN [sceneObjects EXCEPT ![obj] = TRUE]
                              ELSE sceneObjects
           /\ sceneAttempts' = IF marks /\ scStudentId # ""
                                 THEN [sceneAttempts EXCEPT ![obj] = @ + 1]
                                 ELSE sceneAttempts
           /\ timers' = (timers (-) SetToBag({t}))
                           (+) SetToBag({Timer("close", CloseDelayMs, obj, idx, t.own)})
           /\ reported' = reported \cup {obj}
    /\ lastEval' = NoEval
    /\ UNCHANGED << route, drawVars, exploreVars, homeVars, journeyVars, spellVars, currentObjectIndex, scStudentId,
                    spellingObject, selectedLetters, siAvailableLetters, feedback,
                    siEffects, lastMove, resetsInRow, recovery >>

\* The closing timer of handleSpellingCorrect fires: setSpellingObject(null) and
\* onNextObject(), which is ScenesPage.handleNextObject of the render that
\* created the callback.
SS_closeTimeout(t) ==
    /\ Due(t)
    /\ t.kind = "close"
    /\ SS_closeModal
    /\ currentObjectIndex' = IF t.idx < NumObjects - 1
                               THEN t.idx + 1
                               ELSE currentObjectIndex
    /\ timers' = Orphaned(timers (-) SetToBag({t}))
    /\ lastEval' = NoEval
    /\ lastMove' = NoMove
    /\ resetsInRow' = 0
    /\ recovery' = "none"
    /\ UNCHANGED << route, drawVars, exploreVars, homeVars, journeyVars, spellVars, reported, sceneObjects, scStudentId, sceneAttempts >>

\* Time passes: possible once every due timer has fired.
Tick ==
    /\ route = "scenes"
    /\ ~siEffects
    /\ timers # EmptyBag
    /\ \A t \in BagToSet(timers) : t.left > 0
    /\ timers' = [u \in { [t EXCEPT !.left = @ - 1] : t \in BagToSet(timers) } |->
                    timers[[u EXCEPT !.left = @ + 1]]]
    /\ lastEval' = NoEval
    /\ UNCHANGED << route, drawVars, exploreVars, homeVars, journeyVars, spellVars, reported, sceneObjects, currentObjectIndex, scStudentId,
                    sceneAttempts, spellingObject, selectedLetters,
                    siAvailableLetters, feedback, siEffects, lastMove, resetsInRow,
                    recovery >>

-----------------------------------------------------------------------------
(* ScenesPage from the scene selection on, with the SceneSilhouette of          *)
(* components/scene: the current object is found by a click on the scene.      *)

\* The scenes of the word set, and the number of scene_objects rows of each.
Scenes == {1, 2}
SceneRows == <<2, 1>>

\* objects.map(obj => ({ ...obj, found: false })), and the objects built from
\* the rows of a scene: n unfound objects.
Unfound(n) == [i \in 1..n |-> FALSE]

\* delay of the next-object timer and of the timer that clears the feedback of
\* a wrong click, in milliseconds.
NextDelayMs == 1500
ClearDelayMs == 1000

\* A pending setTimeout callback of handleSceneClick: its kind, the ticks left,
\* and what the onNextObject it captured reads: the currentObjectIndex (idx) and
\* sceneObjects.length (len) of the render that created it.  own records that the
\* SceneSilhouette that registered it is still mounted.
ClickTimer(kind, ms, idx, len, own) ==
    [kind |-> kind, left |-> Ticks(ms), idx |-> idx, len |-> len, own |-> own]

\* The timers that outlive the SceneSilhouette: setClickFeedback of the unmounted
\* instance does nothing, the captured onNextObject still runs.
Unmounted(ts) ==
    LET kept == { u \in DOMAIN ts : u.kind # "clear" }
    IN  [v \in { [u EXCEPT !.own = FALSE] : u \in kept } |->
            Copies(ts, v) + Copies(ts, [v EXCEPT !.own = TRUE])]

\* The scene exploration view is rendered.
SC_exploring == route = "explore" /\ selectedScene # 0

\* handleSceneSelect(scene), behind the scene cards of the selection view:
\* setSelectedScene, and loadSceneObjects is called.
SC_handleSceneSelect(scene) ==
    /\ route = "explore"
    /\ selectedScene = 0
    /\ \A i \in 1..NumObjects : sceneAttempts[i] < MaxAttempts
    /\ selectedScene' = scene
    /\ sceneLoads' = sceneLoads \cup {scene}
    /\ clickFeedback' = "null"
    /\ UNCHANGED << route, drawVars, clickTimers, homeVars, journeyVars, spellVars, sceneVars,
                    lastEval, lastMove, resetsInRow, recovery >>

\* loadSceneObjects(sceneId) gets its rows: with rows, setSceneObjects and
\* setCurrentObjectIndex(0).
SC_loadSceneObjects(scene) ==
    /\ route = "explore"
    /\ scene \in sceneLoads
    /\ sceneLoads' = sceneLoads \ {scene}
    /\ IF SceneRows[scene] > 0
         THEN /\ sceneObjects' = Unfound(SceneRows[scene])
              /\ currentObjectIndex' = 0
         ELSE UNCHANGED << sceneObjects, currentObjectIndex >>
    /\ UNCHANGED << route, drawVars, selectedScene, clickFeedback, clickTimers, homeVars,
                    journeyVars, spellVars, scStudentId, sceneAttempts,
                    spellingObject, selectedLetters, siAvailableLetters, feedback,
                    siEffects, timers, reported, lastEval, lastMove, resetsInRow,
                    recovery >>

\* handleBackToScenes, behind 'Back to Scene Selection' (and 'Try Another
\* Scene'): SceneSilhouette unmounts.
SC_handleBackToScenes ==
    /\ SC_exploring
    /\ selectedScene' = 0
    /\ currentObjectIndex' = 0
    /\ sceneObjects' = Unfound(Len(sceneObjects))
    /\ clickFeedback' = "null"
    /\ clickTimers' = Unmounted(clickTimers)
    /\ UNCHANGED << route, drawVars, sceneLoads, homeVars, journeyVars, spellVars,
                    scStudentId, sceneAttempts, spellingObject, selectedLetters,
                    siAvailableLetters, feedback, siEffects, timers, reported,
                    lastEval, lastMove, resetsInRow, recovery >>

\* ScenesPage.handleNextObject, on the currentObjectIndex and sceneObjects.length
\* of the render that created it: the index it sets, cur if it sets none.
SC_handleNextObject(idx, len, cur) == IF idx < len - 1 THEN idx + 1 ELSE cur

\* handleSceneClick(e): a click on the scene, near the current object
\* (hit, isCorrect in the source) or not.  A correct click calls onObjectClick, which is
\* ScenesPage.handleObjectClick, at once and onNextObject after a delay.
CS_handleSceneClick(hit) ==
    /\ SC_exploring
    /\ BagCardinality(clickTimers) < MaxTimers
    /\ LET currentObject == currentObjectIndex + 1
       IN  /\ ~(currentObject \notin 1..Len(sceneObjects) \/ sceneObjects[currentObject])
           /\ clickFeedback' = String(hit)
           /\ IF hit
                THEN LET marks == SC_handleObjectClickMarks(currentObject,
                                                            currentObjectIndex)
                     IN  /\ sceneObjects' =
                               IF marks THEN [sceneObjects EXCEPT ![currentObject] = TRUE]
                               ELSE sceneObjects
                         /\ sceneAttempts' =
                               IF marks /\ scStudentId # "" /\ selectedScene # 0
                                 THEN [sceneAttempts EXCEPT ![currentObject] = @ + 1]
                                 ELSE sceneAttempts
                         /\ clickTimers' = clickTimers (+)
                               SetToBag({ClickTimer("next", NextDelayMs,
                                                    currentObjectIndex,
                                                    Len(sceneObjects), TRUE)})
                ELSE /\ clickTimers' = clickTimers (+)
                           SetToBag({ClickTimer("clear", ClearDelayMs, 0, 0, TRUE)})
                     /\ UNCHANGED << sceneObjects, sceneAttempts >>
    /\ UNCHANGED << route, drawVars, selectedScene, sceneLoads, homeVars, journeyVars,
                    spellVars, currentObjectIndex, scStudentId, spellingObject,
                    selectedLetters, siAvailableLetters, feedback, siEffects,
                    timers, reported, lastEval, lastMove, resetsInRow, recovery >>

\* A timer of handleSceneClick is due.
CS_due(t) ==
    /\ route = "explore"
    /\ BagIn(t, clickTimers)
    /\ t.left = 0

\* The timer of a correct click fires: setClickFeedback(null) and onNextObject().
CS_nextTimeout(t) ==
    /\ CS_due(t)
    /\ t.kind = "next"
    /\ clickFeedback' = IF t.own THEN "null" ELSE clickFeedback
    /\ currentObjectIndex' = SC_handleNextObject(t.idx, t.len, currentObjectIndex)
    /\ clickTimers' = clickTimers (-) SetToBag({t})
    /\ UNCHANGED << route, drawVars, selectedScene, sceneLoads, homeVars, journeyVars,
                    spellVars, sceneObjects, scStudentId, sceneAttempts,
                    spellingObject, selectedLetters, siAvailableLetters, feedback,
                    siEffects, timers, reported, lastEval, lastMove, resetsInRow,
                    recovery >>

\* The timer of a wrong click fires: setClickFeedback(null).
CS_clearTimeout(t) ==
    /\ CS_due(t)
    /\ t.kind = "clear"
    /\ clickFeedback' = "null"
    /\ clickTimers' = clickTimers (-) SetToBag({t})
    /\ UNCHANGED << route, drawVars, selectedScene, sceneLoads, homeVars, journeyVars,
                    spellVars, sceneVars, lastEval, lastMove, resetsInRow, recovery >>

\* Time passes on the page: possible once every due timer has fired.
CS_Tick ==
    /\ route = "explore"
    /\ clickTimers # EmptyBag
    /\ \A t \in BagToSet(clickTimers) : t.left > 0
    /\ clickTimers' = [u \in { [t EXCEPT !.left = @ - 1] : t \in BagToSet(clickTimers) } |->
                          clickTimers[[u EXCEPT !.left = @ + 1]]]
    /\ UNCHANGED << route, drawVars, selectedScene, sceneLoads, clickFeedback, homeVars,
                    journeyVars, spellVars, sceneVars, lastEval, lastMove,
                    resetsInRow, recovery >>

-----------------------------------------------------------------------------
(* POST /api/recognise-drawing.  A confidence c in thousandths stands for       *)
(* c / 1000.                                                                  *)

\* RECOGNITION_THRESHOLD of lib/constants: 0.8
RECOGNITION_THRESHOLD == 800

\* The confidences the recogniser may return.
Confidences == {500, 501, 796, 800, 900, 901}

\* Mutant of RD_isCorrect: the threshold itself is not enough.
RD_isCorrect_above(confidence) == confidence > RECOGNITION_THRESHOLD

\* isCorrect = confidence >= RECOGNITION_THRESHOLD
RD_isCorrect(confidence) == confidence >= RECOGNITION_THRESHOLD

\* The feedback sentence, named by its opening words.
RD_feedback(confidence) ==
    IF RD_isCorrect(confidence)
      THEN IF confidence > 900 THEN "Excellent" ELSE "Great job"
      ELSE IF confidence > 500 THEN "Good effort" ELSE "Nice try"

\* Math.round(confidence * 100) / 100
RD_round(confidence) == ((confidence + 5) \div 10) * 10

\* The body of the response to a recognition with this confidence.
RD_POST(confidence) ==
    [isCorrect |-> RD_isCorrect(confidence),
     confidence |-> RD_round(confidence),
     feedback |-> RD_feedback(confidence)]

-----------------------------------------------------------------------------
(* DrawingPage, with DrawingPrompt and DrawingCanvas *)

\* The page is past its loading view.
DP_rendered == route = "draw" /\ dpWord # NULL

\* setWord(data) when loadWord resolves: a word with or without hint_text.
DP_setWord(hint) ==
    /\ route = "draw"
    /\ dpWord = NULL
    /\ dpWord' = String(hint)
    /\ UNCHANGED << route, dpStudentId, showHint, usedHint, recognizing, result,
                    submissions, isOpen, hasUsedHint, hintShown, recognised,
                    onUseHintCalls, exploreVars, homeVars, journeyVars, spellVars,
                    sceneVars, lastEval, lastMove, resetsInRow, recovery >>

\* Mutant of DP_usedHintSet: closing the hint takes the record back.
DP_usedHintSet_whileShown(shown, used) == ~shown

\* usedHint after onToggleHint, on the showHint and usedHint of the render:
\* if (!showHint && !usedHint) setUsedHint(true)
DP_usedHintSet(shown, used) == IF ~shown /\ ~used THEN TRUE ELSE used

\* onToggleHint, behind the Show Hint / Hide Hint button of DrawingPrompt, which
\* is rendered for a word with a hint.
DP_onToggleHint ==
    /\ DP_rendered
    /\ dpWord = String(TRUE)
    /\ showHint' = ~showHint
    /\ usedHint' = DP_usedHintSet(showHint, usedHint)
    /\ hintShown' = (hintShown \/ showHint')
    /\ UNCHANGED << route, dpWord, dpStudentId, recognizing, result, submissions,
                    isOpen, hasUsedHint, recognised, onUseHintCalls, exploreVars,
                    homeVars, journeyVars, spellVars, sceneVars, lastEval, lastMove,
                    resetsInRow, recovery >>

\* How far the handling of a submitted drawing has got.
Settled == {"dropped", "failed", "logged"}

\* DrawingCanvas.handleExport, behind the Submit Drawing button: exportImage is
\* awaited, with the onDrawingComplete of this render, which is the
\* handleDrawingSubmit that captured usedHint.
DC_handleExport ==
    /\ DP_rendered
    /\ Len(submissions) < MaxSubmissions
    /\ submissions' = Append(submissions, [stage |-> "export", usedHint |-> usedHint,
                                           shown |-> hintShown])
    /\ UNCHANGED << route, dpWord, dpStudentId, showHint, usedHint, recognizing,
                    result, isOpen, hasUsedHint, hintShown, recognised,
                    onUseHintCalls, exploreVars, homeVars, journeyVars, spellVars,
                    sceneVars, lastEval, lastMove, resetsInRow, recovery >>

\* exportImage settles.  When it resolves handleDrawingSubmit runs up to its
\* fetch: the early return, or setRecognizing(true) and setResult(null).
DC_exportImageSettles(i, ok) ==
    /\ route = "draw"
    /\ submissions[i].stage = "export"
    /\ IF ok /\ ~(dpWord = NULL \/ dpStudentId = "")
         THEN /\ recognizing' = TRUE
              /\ result' = NoResult
              /\ recognised' = -1
              /\ submissions' = [submissions EXCEPT ![i].stage = "fetch"]
         ELSE /\ submissions' = [submissions EXCEPT ![i].stage = "dropped"]
              /\ UNCHANGED << recognizing, result, recognised >>
    /\ UNCHANGED << route, dpWord, dpStudentId, showHint, usedHint, isOpen,
                    hasUsedHint, hintShown, onUseHintCalls, exploreVars, homeVars,
                    journeyVars, spellVars, sceneVars, lastEval, lastMove,
                    resetsInRow, recovery >>

\* The result of the catch branch of handleDrawingSubmit.
DP_errorResult == [isCorrect |-> FALSE, confidence |-> 0, feedback |-> "Sorry"]

\* The fetch fails or its response is not ok: the catch branch, and finally
\* setRecognizing(false).
DP_fetchFails(i) ==
    /\ route = "draw"
    /\ submissions[i].stage = "fetch"
    /\ result' = DP_errorResult
    /\ recognised' = -1
    /\ recognizing' = FALSE
    /\ submissions' = [submissions EXCEPT ![i].stage = "failed"]
    /\ UNCHANGED << route, dpWord, dpStudentId, showHint, usedHint, isOpen,
                    hasUsedHint, hintShown, onUseHintCalls, exploreVars, homeVars,
                    journeyVars, spellVars, sceneVars, lastEval, lastMove,
                    resetsInRow, recovery >>

\* The fetch resolves with the response to a recognition of this confidence:
\* setResult(data), and the insert into word_attempts is awaited.
DP_fetchResolves(i, confidence) ==
    /\ route = "draw"
    /\ submissions[i].stage = "fetch"
    /\ result' = RD_POST(confidence)
    /\ recognised' = confidence
    /\ submissions' = [submissions EXCEPT ![i].stage = "insert"]
    /\ UNCHANGED << route, dpWord, dpStudentId, showHint, usedHint, recognizing,
                    isOpen, hasUsedHint, hintShown, onUseHintCalls, exploreVars,
                    homeVars, journeyVars, spellVars, sceneVars, lastEval, lastMove,
                    resetsInRow, recovery >>

\* The insert settles, with the row written (used_hint: the captured usedHint) or
\* with an error in its result, which is not looked at; finally
\* setRecognizing(false).
DP_insertSettles(i, ok) ==
    /\ route = "draw"
    /\ submissions[i].stage = "insert"
    /\ recognizing' = FALSE
    /\ submissions' = [submissions EXCEPT ![i].stage = IF ok THEN "logged" ELSE "failed"]
    /\ UNCHANGED << route, dpWord, dpStudentId, showHint, usedHint, result, isOpen,
                    hasUsedHint, hintShown, recognised, onUseHintCalls, exploreVars,
                    homeVars, journeyVars, spellVars, sceneVars, lastEval, lastMove,
                    resetsInRow, recovery >>

\* The rows of word_attempts written by the page: the used_hint of each.
DP_rows == { i \in 1..Len(submissions) : submissions[i].stage = "logged" }

\* 'Continue to Next Activity' is rendered.
DP_continueShown == DP_rendered /\ result # NoResult /\ ~recognizing /\ result.isCorrect

-----------------------------------------------------------------------------
(* HintCard, given a hint and an onUseHint *)

\* newIsOpen && !hasUsedHint
HC_firstOpening(newIsOpen, used) == newIsOpen /\ ~used

\* toggleHint, behind the Show Hint / Hide Hint button
HC_toggleHint ==
    /\ route = "hintcard"
    /\ LET newIsOpen == ~isOpen
           first == HC_firstOpening(newIsOpen, hasUsedHint)
       IN  /\ isOpen' = newIsOpen
           /\ hasUsedHint' = (hasUsedHint \/ first)
           /\ onUseHintCalls' = IF first /\ onUseHintCalls < 2
                                  THEN onUseHintCalls + 1
                                  ELSE onUseHintCalls
    /\ UNCHANGED << route, dpWord, dpStudentId, showHint, usedHint, recognizing,
                    result, submissions, hintShown, recognised, exploreVars,
                    homeVars, journeyVars, spellVars, sceneVars, lastEval, lastMove,
                    resetsInRow, recovery >>

-----------------------------------------------------------------------------
(* lib/sound-effects and VolumeControl, on the home page *)

\* shouldPlaySound(), in the browser
SE_shouldPlaySound ==
    LET soundsDisabled == localStorage["sounds-disabled"] = "true"
    IN  IF soundsDisabled THEN FALSE ELSE ~prefersReducedMotion

\* playSound(soundKey, volume): what the call does.
SE_playSound == IF ~SE_shouldPlaySound THEN "silent" ELSE "played"

\* The mount effect of VolumeControl.
VC_runEffects ==
    /\ route = "home"
    /\ vcEffects
    /\ LET stored == localStorage["soundEnabled"]
       IN  isMuted' = (stored = "false")
    /\ vcEffects' = FALSE
    /\ lastSound' = "none"
    /\ UNCHANGED << route, drawVars, exploreVars, journeyVars, localStorage, prefersReducedMotion, spellVars, sceneVars,
                    lastEval, lastMove, resetsInRow, recovery >>

\* The key VolumeControl.toggleMute stores the preference under.
VC_storageKey == "soundEnabled"

\* toggleMute, behind the VolumeControl button
VC_toggleMute ==
    /\ route = "home"
    /\ ~vcEffects
    /\ LET newMuted == ~isMuted
       IN  /\ isMuted' = newMuted
           /\ localStorage' = [localStorage EXCEPT ![VC_storageKey] = String(~newMuted)]
    /\ lastSound' = SE_playSound
    /\ UNCHANGED << route, drawVars, exploreVars, journeyVars, prefersReducedMotion, vcEffects, spellVars, sceneVars,
                    lastEval, lastMove, resetsInRow, recovery >>

\* A handler of the page calls playSound (handleSelectWordSet on the home page).
SE_playSoundCall ==
    /\ route = "home"
    /\ ~vcEffects
    /\ lastSound' = SE_playSound
    /\ UNCHANGED << route, drawVars, exploreVars, journeyVars, isMuted, localStorage, prefersReducedMotion, vcEffects,
                    spellVars, sceneVars, lastEval, lastMove, resetsInRow, recovery >>

\* toggleSounds()
SE_toggleSounds ==
    /\ route = "home"
    /\ ~vcEffects
    /\ LET currentState == localStorage["sounds-disabled"] = "true"
           newState == ~currentState
       IN  localStorage' = [localStorage EXCEPT !["sounds-disabled"] = String(newState)]
    /\ lastSound' = "none"
    /\ UNCHANGED << route, drawVars, exploreVars, journeyVars, isMuted, prefersReducedMotion, vcEffects, spellVars,
                    sceneVars, lastEval, lastMove, resetsInRow, recovery >>

-----------------------------------------------------------------------------
(* StudentJourneyPage *)

\* The words table: the ids of the words of the word set of the page, in
\* order_index order, the ids of the words of another word set, and the text of
\* each.
SetWordIds == << "w1", "w2" >>
OtherWordIds == { "x1" }
WordText == [w \in {"w1", "w2", "x1"} |->
               CASE w = "w1" -> <<"b", "e", "e">>
                 [] w = "w2" -> <<"T", "o", " ", "o">>
                 [] OTHER -> <<"o", "x">>]

\* The elements of a sequence.
Range(seq) == { seq[i] : i \in 1..Len(seq) }

\* object_name values a scene attempt may carry.
SceneObjectNames == { <<"B", "e", "e">>, <<"o", "w", "l">> }

\* The id the database gives to the n-th student created by the session.
NewStudentId(n) ==
    CASE n = 1 -> "s2"
      [] n = 2 -> "s3"
      [] OTHER -> "s4"

\* loadWordSetData resolves: setWordSet, setWords, and setLoading(false).
J_loadWordSetData ==
    /\ route = "journey"
    /\ loading
    /\ words' = SetWordIds
    /\ loading' = FALSE
    /\ UNCHANGED << route, drawVars, exploreVars, homeVars, currentWordIndex, progress, jStudentId,
                    sessionStorage, dbWordAttempts, dbSceneAttempts, dbStudents,
                    loads, spellVars,
                    sceneVars, lastEval, lastMove, resetsInRow, recovery >>

\* The progress map loadStudentProgress builds for the student sid.
J_progressMap(sid) ==
    LET drawAttempts == { r \in dbWordAttempts : r.student_id = sid }
        sceneAttemptRows == { r \in dbSceneAttempts : r.student_id = sid }
        wordsData == Range(SetWordIds)
        drawnIds == { r.word_id : r \in drawAttempts }
        spelledIds == { w \in wordsData :
                          \E r \in sceneAttemptRows :
                              ToLowerCase(WordText[w]) = ToLowerCase(r.object_name) }
    IN  [w \in drawnIds \cup spelledIds |->
            [drawn |-> w \in drawnIds, spelled |-> w \in spelledIds]]

\* sessionStorage.getItem('studentId'), "null" making the call create a student
J_storedSid(stored) == stored

\* The load effect runs loadStudentProgress, up to its first await: with a
\* stored id, setStudentId and the queries; without, the insert into students.
J_loadStudentProgress ==
    /\ route = "journey"
    /\ Len(loads) < MaxLoads
    /\ LET sid == J_storedSid(sessionStorage)
       IN  IF sid = "null"
             THEN /\ loads' = Append(loads, [stage |-> "insert", sid |-> "null"])
                  /\ UNCHANGED jStudentId
             ELSE /\ loads' = Append(loads, [stage |-> "queries", sid |-> sid])
                  /\ jStudentId' = sid
    /\ UNCHANGED << route, drawVars, exploreVars, homeVars, words, currentWordIndex,
                    progress, loading, sessionStorage, dbWordAttempts,
                    dbSceneAttempts, dbStudents, spellVars, sceneVars, lastEval,
                    lastMove, resetsInRow, recovery >>

\* The insert into students of a call returns: with the new row, the id is
\* stored and set, and the queries follow; with an error the call returns.
J_insertReturns(i, ok) ==
    /\ route = "journey"
    /\ loads[i].stage = "insert"
    /\ IF ok
         THEN LET studentId_ == NewStudentId(dbStudents + 1)
              IN  /\ dbStudents' = dbStudents + 1
                  /\ sessionStorage' = studentId_
                  /\ jStudentId' = studentId_
                  /\ loads' = [loads EXCEPT ![i] = [stage |-> "queries",
                                                    sid |-> studentId_]]
         ELSE /\ loads' = [loads EXCEPT ![i].stage = "done"]
              /\ UNCHANGED << dbStudents, sessionStorage, jStudentId >>
    /\ UNCHANGED << route, drawVars, exploreVars, homeVars, words, currentWordIndex,
                    progress, loading, dbWordAttempts, dbSceneAttempts, spellVars,
                    sceneVars, lastEval, lastMove, resetsInRow, recovery >>

\* The queries of a call return: setProgress(progressMap).
J_queriesReturn(i) ==
    /\ route = "journey"
    /\ loads[i].stage = "queries"
    /\ progress' = J_progressMap(loads[i].sid)
    /\ loads' = [loads EXCEPT ![i].stage = "done"]
    /\ UNCHANGED << route, drawVars, exploreVars, homeVars, words, currentWordIndex,
                    loading, jStudentId, sessionStorage, dbWordAttempts,
                    dbSceneAttempts, dbStudents, spellVars, sceneVars, lastEval,
                    lastMove, resetsInRow, recovery >>

\* The progress of the student of the page is loaded: a call has set the
\* student and no call is under way.
J_progressLoaded ==
    /\ jStudentId # ""
    /\ \A i \in 1..Len(loads) : loads[i].stage = "done"

\* The page is past its loading view: it is not loading and currentWord exists.
J_rendered == route = "journey" /\ ~(loading \/ currentWordIndex + 1 > Len(words))

\* handleNextWord, behind the Next Word button
J_handleNextWord ==
    /\ J_rendered
    /\ ~(currentWordIndex = Len(words) - 1)
    /\ currentWordIndex' = IF currentWordIndex < Len(words) - 1
                              THEN currentWordIndex + 1
                              ELSE currentWordIndex
    /\ UNCHANGED << route, drawVars, exploreVars, homeVars, words, progress, loading, jStudentId,
                    sessionStorage, dbWordAttempts, dbSceneAttempts, dbStudents,
                    loads, spellVars,
                    sceneVars, lastEval, lastMove, resetsInRow, recovery >>

\* handlePreviousWord, behind the Previous Word button
J_handlePreviousWord ==
    /\ J_rendered
    /\ ~(currentWordIndex = 0)
    /\ currentWordIndex' = IF currentWordIndex > 0
                              THEN currentWordIndex - 1
                              ELSE currentWordIndex
    /\ UNCHANGED << route, drawVars, exploreVars, homeVars, words, progress, loading, jStudentId,
                    sessionStorage, dbWordAttempts, dbSceneAttempts, dbStudents,
                    loads, spellVars,
                    sceneVars, lastEval, lastMove, resetsInRow, recovery >>

\* wordsDrawn: Object.values(progress).filter(p => p.drawn).length
J_wordsDrawn == Cardinality({ w \in DOMAIN progress : progress[w].drawn })

\* allWordsDrawn
J_allWordsDrawn == J_wordsDrawn = Len(words)

\* The 'Explore the Scene' entry is rendered.
J_scenesShown == J_rendered /\ J_allWordsDrawn

-----------------------------------------------------------------------------
(* Specification *)

Init ==
    /\ route \in {"spell", "scenes", "explore", "home", "journey", "draw", "hintcard"}
    /\ dpWord = NULL
    /\ dpStudentId \in (IF route = "draw" THEN StudentIds ELSE {""})
    /\ showHint = FALSE
    /\ usedHint = FALSE
    /\ recognizing = FALSE
    /\ result = NoResult
    /\ submissions = << >>
    /\ isOpen = FALSE
    /\ hasUsedHint = FALSE
    /\ hintShown = FALSE
    /\ recognised = -1
    /\ onUseHintCalls = 0
    /\ selectedScene = (IF route = "scenes" THEN 1 ELSE 0)
    /\ sceneLoads = {}
    /\ clickFeedback = "null"
    /\ clickTimers = EmptyBag
    /\ words = << >>
    /\ currentWordIndex = 0
    /\ progress = << >>
    /\ loading = TRUE
    /\ jStudentId = ""
    /\ sessionStorage \in (IF route = "journey" THEN {"null", "s1"} ELSE {"null"})
    /\ dbWordAttempts \in
          (IF sessionStorage = "null" THEN {{}}
           ELSE SUBSET [student_id : {"s1"},
                        word_id : Range(SetWordIds) \cup OtherWordIds])
    /\ dbSceneAttempts \in
          (IF sessionStorage = "null" THEN {{}}
           ELSE SUBSET [student_id : {"s1"}, object_name : SceneObjectNames])
    /\ dbStudents = 0
    /\ loads = << >>
    /\ isMuted = FALSE
    /\ localStorage \in (IF route = "home"
                            THEN [{"soundEnabled", "sounds-disabled"}
                                    -> {"null", "true", "false"}]
                            ELSE {[k \in {"soundEnabled", "sounds-disabled"} |-> "null"]})
    /\ prefersReducedMotion \in (IF route = "home" THEN BOOLEAN ELSE {FALSE})
    /\ vcEffects = (route = "home")
    /\ lastSound = "none"
    /\ word = NoWord
    /\ studentId = ""
    /\ completed = FALSE
    /\ wordAttempts = 0
    /\ placedLetters = << >>
    /\ availableLetters = << >>
    /\ isComplete = FALSE
    /\ isCorrect = FALSE
    /\ lbEffects = {}
    /\ sceneObjects = [i \in 1..NumObjects |-> FALSE]
    /\ currentObjectIndex = 0
    /\ scStudentId \in (IF route \in {"scenes", "explore"} THEN StudentIds ELSE {""})
    /\ sceneAttempts = [i \in 1..NumObjects |-> 0]
    /\ reported = {}
    /\ spellingObject = 0
    /\ selectedLetters = << >>
    /\ siAvailableLetters = << >>
    /\ feedback = "null"
    /\ siEffects = FALSE
    /\ timers = EmptyBag
    /\ lastEval = NoEval
    /\ lbCalls = 0
    /\ lastMove = NoMove
    /\ resetsInRow = 0
    /\ recovery = "none"

Next ==
    \/ \E w \in Words : SP_setWord(w)
    \/ SP_setStudentId
    \/ LB_runEffects
    \/ \E index \in 1..Len(availableLetters) : LB_bankClick(index)
    \/ \E index \in 1..Len(placedLetters) : LB_slotClick(index)
    \/ LB_handleReset
    \/ \E obj \in 1..NumObjects : SS_handleSilhouetteClick(obj)
    \/ SI_runEffects
    \/ \E index \in 1..Len(siAvailableLetters) : SI_availableClick(index)
    \/ \E index \in 1..Len(selectedLetters) : SI_handleRemoveLetter(index)
    \/ SI_handleCheck
    \/ SI_handleReset
    \/ SS_handleSpellingClose
    \/ \E t \in BagToSet(timers) : SI_incorrectTimeout(t)
    \/ \E t \in BagToSet(timers) : SI_correctTimeout(t)
    \/ \E t \in BagToSet(timers) : SS_closeTimeout(t)
    \/ Tick
    \/ \E scene \in Scenes : SC_handleSceneSelect(scene)
    \/ \E scene \in Scenes : SC_loadSceneObjects(scene)
    \/ SC_handleBackToScenes
    \/ \E hit \in BOOLEAN : CS_handleSceneClick(hit)
    \/ \E t \in BagToSet(clickTimers) : CS_nextTimeout(t)
    \/ \E t \in BagToSet(clickTimers) : CS_clearTimeout(t)
    \/ CS_Tick
    \/ \E hint \in BOOLEAN : DP_setWord(hint)
    \/ DP_onToggleHint
    \/ DC_handleExport
    \/ \E i \in 1..Len(submissions) : \E ok \in BOOLEAN : DC_exportImageSettles(i, ok)
    \/ \E i \in 1..Len(submissions) : DP_fetchFails(i)
    \/ \E i \in 1..Len(submissions) : \E c \in Confidences : DP_fetchResolves(i, c)
    \/ \E i \in 1..Len(submissions) : \E ok \in BOOLEAN : DP_insertSettles(i, ok)
    \/ HC_toggleHint
    \/ VC_runEffects
    \/ VC_toggleMute
    \/ SE_playSoundCall
    \/ SE_toggleSounds
    \/ J_loadWordSetData
    \/ J_loadStudentProgress
    \/ \E i \in 1..Len(loads) : \E ok \in BOOLEAN : J_insertReturns(i, ok)
    \/ \E i \in 1..Len(loads) : J_queriesReturn(i)
    \/ J_handleNextWord
    \/ J_handlePreviousWord

Spec == Init /\ [][Next]_vars

-----------------------------------------------------------------------------
(* Properties *)

\* Two strings equal character for character once both are lower-cased.
SameIgnoringCase(a, b) ==
    /\ Len(a) = Len(b)
    /\ \A i \in 1..Len(a) : LowerChar(a[i]) = LowerChar(b[i])

\* C1: in both widgets, once the game for the target word has been started (its
\* shuffle / scramble effect has run), the tiles in the pool plus the occupied
\* slots (selected letters) number the characters of the target word, after
\* every placement and removal.
C1_Conservation ==
    /\ (LB_mounted /\ "shuffle" \notin lbEffects)
          => Len(availableLetters) + Occupied(placedLetters) = Len(word)
    /\ (SI_mounted /\ ~siEffects)
          => Len(siAvailableLetters) + Len(selectedLetters) = Len(SI_word)

\* A letter was removed from a LetterBank slot while others stay placed and tiles
\* remain in the bank.
C1_Witness ==
    /\ route = "spell"
    /\ lastMove.op = "remove"
    /\ Occupied(placedLetters) >= 1
    /\ Len(availableLetters) >= 2

\* C2: every evaluation reports isCorrect = TRUE exactly when the slot characters,
\* in slot order, equal the target word character for character after
\* lower-casing both; so do the validators on the examples "Tree" / t,r,e,e,
\* "bee" / b,e,e and "bee" / e,b,e.
C2_ExactMatch ==
    /\ lastEval.widget # "none"
          => (lastEval.correct <=> SameIgnoringCase(lastEval.slots, lastEval.target))
    /\ LB_correct(<<"t", "r", "e", "e">>, <<"T", "r", "e", "e">>)
    /\ SI_correct(<<"t", "r", "e", "e">>, <<"T", "r", "e", "e">>)
    /\ LB_correct(<<"b", "e", "e">>, <<"b", "e", "e">>)
    /\ SI_correct(<<"b", "e", "e">>, <<"b", "e", "e">>)
    /\ ~LB_correct(<<"e", "b", "e">>, <<"b", "e", "e">>)
    /\ ~SI_correct(<<"e", "b", "e">>, <<"b", "e", "e">>)

\* SpellingInterface judged the lower-case tiles b,e correct for the word "Be".
C2_Witness ==
    /\ lastEval.widget = "SpellingInterface"
    /\ lastEval.target = <<"B", "e">>
    /\ lastEval.slots = <<"b", "e">>
    /\ lastEval.correct

\* C3: for every evaluation phase of LetterBank (a value of placedLetters with
\* every slot of a non-empty target word filled) onComplete is invoked exactly
\* once: never more than once, and once by the time the effects have run.
C3_ExactlyOneCompletion ==
    (LB_mounted /\ word # << >>) =>
        /\ lbCalls <= 1
        /\ (LB_quiescent /\ LB_hasAllLetters(placedLetters)) => lbCalls = 1

\* C4: once a game is Solved, no letter is placed or removed while the same game
\* goes on (same target word, same modal): slots and pool stay as they are.
C4_SolvedIsLocked ==
    [][ /\ (LB_quiescent /\ isComplete /\ isCorrect /\ word' = word)
            => UNCHANGED << placedLetters, availableLetters >>
        /\ (SI_quiescent /\ feedback = "correct" /\ spellingObject' = spellingObject)
            => UNCHANGED << selectedLetters, siAvailableLetters >> ]_vars

\* C5: a LetterBank given the empty target word stays Idle: it is neither
\* complete nor correct and it makes no completion call.
C5_EmptyWordStaysIdle ==
    (LB_mounted /\ word = << >>) =>
        /\ ~isComplete
        /\ ~isCorrect
        /\ lastEval.widget = "none"
        /\ lbCalls = 0

\* C6: no evaluation runs while a slot is empty: every evaluation reads slots
\* that are all filled, in SpellingInterface as many selected letters as the word
\* has characters; and once its effects have run LetterBank shows a result
\* (isComplete) only over fully filled slots.
C6_NeverPartial ==
    /\ lastEval.widget # "none"
          => \A i \in 1..Len(lastEval.slots) : lastEval.slots[i] # NULL
    /\ lastEval.widget = "SpellingInterface"
          => Len(lastEval.slots) = Len(lastEval.target)
    /\ (LB_quiescent /\ isComplete) => Occupied(placedLetters) = Len(placedLetters)

\* LetterBank evaluated three filled slots and found them wrong.
C6_Witness ==
    /\ lastEval.widget = "LetterBank"
    /\ Len(lastEval.slots) = 3
    /\ ~lastEval.correct

LB_Failed ==
    /\ Occupied(placedLetters) = Len(placedLetters)
    /\ ~SameIgnoringCase(placedLetters, word)

\* LetterBank as a fresh game: all slots empty, the pool holding the characters
\* of the target word, neither complete nor correct.
LB_FreshPlacing ==
    /\ placedLetters = NullArray(Len(word))
    /\ BagOf(availableLetters) = BagOf(word)
    /\ ~isComplete
    /\ ~isCorrect

\* SpellingInterface as a fresh game: nothing selected, the pool holding the
\* (lower-cased) characters of the word, no feedback.
SI_FreshPlacing ==
    /\ selectedLetters = << >>
    /\ BagOf(siAvailableLetters) = BagOf(ToLowerCase(SI_word))
    /\ feedback = "null"

\* C8 as claimed: reset is available in every state of a started game (a
\* LetterBank game over a word with letters, a SpellingInterface game), and leads
\* to a fresh game.
C8_ResetAlwaysAvailable ==
    /\ (LB_quiescent /\ word # << >>) => ENABLED LB_handleReset
    /\ SI_quiescent => ENABLED SI_handleReset
    /\ resetsInRow >= 1 => (IF route = "spell" THEN LB_FreshPlacing ELSE SI_FreshPlacing)

\* C8 as amended: LetterBank offers reset exactly when the game is Failed, and
\* SpellingInterface in every state but Solved (feedback 'correct'); wherever it
\* is offered, reset leads to a fresh game: all slots empty, the pool holding
\* every character of the target word, neither complete nor correct.
C8_ResetWhereOffered ==
    /\ [](LB_quiescent => (ENABLED LB_handleReset <=> LB_Failed))
    /\ [](SI_quiescent => (ENABLED SI_handleReset <=> feedback # "correct"))
    /\ [][ /\ LB_handleReset => LB_FreshPlacing'
           /\ SI_handleReset => SI_FreshPlacing' ]_vars

\* LetterBank was reset from Failed.
C8_Witness ==
    /\ route = "spell"
    /\ resetsInRow = 1
    /\ lbEffects = LB_placedLettersChanged

\* C9: after reset, and after reset called again right after it, the game is the
\* same fresh game: all slots empty, the pool equal as a multiset to the
\* characters of the target word (lower-cased in SpellingInterface), neither
\* complete nor correct.
C9_ResetIdempotent ==
    resetsInRow >= 1 =>
        (IF route = "spell" THEN LB_FreshPlacing ELSE SI_FreshPlacing)

\* Reset was called twice in a row.
C9_Witness == resetsInRow = 2

\* C10: when a tile is placed and that tile is removed right after, the slots
\* hold what they held before the placement and the pool holds the same multiset
\* of characters as before it.
C10_RoundTrip ==
    lastMove.op = "undo" =>
        IF route = "spell"
          THEN /\ placedLetters = lastMove.slots
               /\ BagOf(availableLetters) = lastMove.pool
          ELSE /\ selectedLetters = lastMove.slots
               /\ BagOf(siAvailableLetters) = lastMove.pool

\* A tile was placed next to an already placed one in LetterBank and removed
\* right after.
C10_Witness ==
    /\ route = "spell"
    /\ lastMove.op = "undo"
    /\ Occupied(placedLetters) >= 1

\* C11: after a Failed evaluation the game is recoverable without reset, in both
\* widgets: every placed letter can be removed; the removal empties that slot and
\* appends its tile to the pool; the game is then in Placing (not complete, not
\* correct); every pool tile can be placed again; and once the slots are filled
\* with the right spelling the evaluation (automatic in LetterBank, behind Check
\* in SpellingInterface) finds the game Solved.
C11_RecoverableAfterFailed ==
    /\ []((LB_quiescent /\ recovery = "failed")
            => \A i \in 1..Len(placedLetters) : ENABLED LB_slotClick(i))
    /\ []((SI_quiescent /\ recovery = "failed")
            => \A i \in 1..Len(selectedLetters) : ENABLED SI_handleRemoveLetter(i))
    /\ [][ (recovery = "failed" /\ recovery' = "placing") =>
             IF route = "spell"
               THEN \E i \in 1..Len(placedLetters) :
                      /\ placedLetters[i] # NULL
                      /\ placedLetters' = [placedLetters EXCEPT ![i] = NULL]
                      /\ availableLetters' = Append(availableLetters, placedLetters[i])
               ELSE \E i \in 1..Len(selectedLetters) :
                      /\ selectedLetters' = RemoveAt(selectedLetters, i)
                      /\ siAvailableLetters' =
                            Append(siAvailableLetters, selectedLetters[i]) ]_vars
    /\ []((LB_quiescent /\ recovery = "placing")
            => /\ ~isComplete
               /\ ~isCorrect
               /\ wordAttempts < MaxAttempts
                    => \A i \in 1..Len(availableLetters) :
                           ENABLED (LB_bankClick(i) /\ placedLetters' # placedLetters))
    /\ []((SI_quiescent /\ recovery = "placing")
            => /\ feedback # "correct"
               /\ \A i \in 1..Len(siAvailableLetters) : ENABLED SI_availableClick(i)
               /\ (Len(selectedLetters) = Len(SI_word)
                      /\ BagCardinality(timers) < MaxTimers) => ENABLED SI_handleCheck)
    /\ [][ /\ (route = "spell" /\ recovery = "placing" /\ lbEffects # {}
                 /\ Occupied(placedLetters) = Len(placedLetters)
                 /\ SameIgnoringCase(placedLetters, word))
              => (isComplete' /\ isCorrect' /\ recovery' = "solved")
           /\ (SI_handleCheck /\ recovery = "placing"
                 /\ SameIgnoringCase(selectedLetters, SI_word))
              => (feedback' = "correct" /\ recovery' = "solved") ]_vars

\* LetterBank is Solved after a Failed evaluation and a removal, with no reset in
\* between.
C11_Witness ==
    /\ LB_quiescent
    /\ recovery = "solved"
    /\ isComplete
    /\ isCorrect

\* C12: every completed evaluation of a spelling attempt on a word with letters,
\* correct or incorrect, is delivered to the progress sink: an evaluation of
\* LetterBank inserts its row into word_attempts, and an evaluation of
\* SpellingInterface leaves the callback pending that reports it to ScenesPage.
C12_NoAttemptDropped ==
    /\ (lastEval.widget = "LetterBank" /\ lastEval.target # << >>) => lastEval.logged
    /\ lastEval.widget = "SpellingInterface"
          => \E t \in BagToSet(timers) : t.kind = "correct" /\ t.left = Ticks(CorrectDelayMs)

\* C13: whenever no letter is placed in a started game (after start, after every
\* reset, after every change of the target word) the pool holds exactly the
\* characters of the target word, as many tiles of each as the word has (of the
\* lower-cased word in SpellingInterface), a space being a tile like any other;
\* and an evaluation finds the spelling correct only with a space tile in every
\* slot where the word has a space (so for the scrambled tiles of "O x" in
\* SpellingInterface).
C13_PoolIsPermutation ==
    /\ (LB_mounted /\ "shuffle" \notin lbEffects /\ Occupied(placedLetters) = 0)
          => /\ Len(availableLetters) = Len(word)
             /\ BagOf(availableLetters) = BagOf(word)
    /\ (SI_mounted /\ ~siEffects /\ selectedLetters = << >>)
          => /\ Len(siAvailableLetters) = Len(SI_word)
             /\ BagOf(siAvailableLetters) = BagOf(ToLowerCase(SI_word))
    /\ (lastEval.widget # "none" /\ lastEval.correct)
          => \A i \in 1..Len(lastEval.target) :
                 lastEval.target[i] = " " => lastEval.slots[i] = " "
    /\ \A tiles \in Shuffles(ToLowerCase(<<"O", " ", "x">>)) :
          /\ BagOf(tiles) = BagOf(<<"o", " ", "x">>)
          /\ SI_correct(tiles, <<"O", " ", "x">>) <=> tiles = <<"o", " ", "x">>

\* LetterBank was reset on a word with an embedded space, and the reset pool is
\* about to be used.
C13_Witness ==
    /\ LB_quiescent
    /\ resetsInRow = 1
    /\ \E i \in 1..Len(word) : word[i] = " "
    /\ \E i \in 1..Len(availableLetters) : availableLetters[i] = " "

\* C14 as claimed: in SpellingInterface a placed letter is appended at the end of
\* the selected sequence, and a removal takes the last selected letter, the
\* others keeping their positions.
C14_RemovalIsLIFO ==
    [][ /\ (\E i \in 1..Len(siAvailableLetters) : SI_availableClick(i))
             => \E i \in 1..Len(siAvailableLetters) :
                    selectedLetters' = selectedLetters \o << siAvailableLetters[i] >>
        /\ (\E i \in 1..Len(selectedLetters) : SI_handleRemoveLetter(i))
             => selectedLetters' = SubSeq(selectedLetters, 1, Len(selectedLetters) - 1)
      ]_vars

\* C14 as amended: in SpellingInterface a placed letter is appended at the end of
\* the selected sequence, and every selected letter can be removed, whichever was
\* placed last: the letters before it keep their positions, those after it move
\* one position down in the same order, and its tile goes to the end of the pool.
C14_RemovalAtAnyIndex ==
    /\ [](SI_quiescent
            => \A i \in 1..Len(selectedLetters) : ENABLED SI_handleRemoveLetter(i))
    /\ [][ /\ \A i \in 1..Len(siAvailableLetters) :
                 SI_availableClick(i)
                    => selectedLetters' = selectedLetters \o << siAvailableLetters[i] >>
           /\ \A i \in 1..Len(selectedLetters) :
                 SI_handleRemoveLetter(i)
                    => /\ Len(selectedLetters') = Len(selectedLetters) - 1
                       /\ \A j \in 1..(i - 1) : selectedLetters'[j] = selectedLetters[j]
                       /\ \A j \in i..(Len(selectedLetters) - 1) :
                             selectedLetters'[j] = selectedLetters[j + 1]
                       /\ siAvailableLetters' =
                             siAvailableLetters \o << selectedLetters[i] >> ]_vars

\* In SpellingInterface a selected letter was removed from under a later one,
\* which is still selected.
C14_Witness ==
    /\ SI_mounted
    /\ lastMove.op = "remove"
    /\ lastMove.slot <= Len(selectedLetters)

\* Slots without an empty one, and banks with a tile, over two characters.
C15_FullSlots == UNION { [1..n -> {"a", "b"}] : n \in 0..2 }
C15_Banks == UNION { [1..n -> {"a", "b"}] : n \in 1..2 }

\* C15: in LetterBank, clicking the bank tile at index i puts that tile's
\* character into the lowest-index empty slot and takes that tile out of the
\* bank, every other slot and every other tile staying as and where it is; and
\* when no slot is empty handleLetterClick sets neither slots nor bank.
C15_PlacementFrame ==
    /\ [](\A placed \in C15_FullSlots : \A available \in C15_Banks :
             \A i \in 1..Len(available) :
               LB_placeFromBank(placed, available, available[i], i)
                  = [placed |-> placed, available |-> available])
    /\ [][ \A i \in 1..Len(availableLetters) :
             (LB_bankClick(i) /\ Occupied(placedLetters) < Len(placedLetters))
               => \E e \in 1..Len(placedLetters) :
                     /\ placedLetters[e] = NULL
                     /\ \A j \in 1..(e - 1) : placedLetters[j] # NULL
                     /\ Len(placedLetters') = Len(placedLetters)
                     /\ placedLetters'[e] = availableLetters[i]
                     /\ \A j \in 1..Len(placedLetters) :
                           j # e => placedLetters'[j] = placedLetters[j]
                     /\ Len(availableLetters') = Len(availableLetters) - 1
                     /\ \A j \in 1..(i - 1) : availableLetters'[j] = availableLetters[j]
                     /\ \A j \in i..(Len(availableLetters) - 1) :
                           availableLetters'[j] = availableLetters[j + 1] ]_vars

\* A bank tile was placed into slot 1 while slot 2 was occupied and another slot
\* was empty.
C15_Witness ==
    /\ route = "spell"
    /\ lastMove.op = "place"
    /\ lastMove.slot = 1
    /\ lastMove.slots[2] # NULL
    /\ Occupied(placedLetters) < Len(placedLetters)

\* C16: when the correct spelling of an object's name is reported to the page
\* (onCorrect runs for the object the modal was opened on), that object is marked
\* found and, the student being known, a scene attempt is logged for it,
\* whichever object the page treats as the current one.
C16_AnyObjectIsMarked ==
    [][ \A t \in BagToSet(timers) :
          SI_correctTimeout(t)
            => /\ sceneObjects'[t.obj]
               /\ scStudentId # ""
                    => sceneAttempts'[t.obj] = sceneAttempts[t.obj] + 1 ]_vars

\* C17: while the VolumeControl shows the sounds muted, a playSound call of a
\* handler plays no audio; and while it shows them unmuted and no reduced-motion
\* preference is set, the call plays.
C17_MuteSilencesPlaySound ==
    [][ SE_playSoundCall
          => /\ isMuted => lastSound' = "silent"
             /\ (~isMuted /\ ~prefersReducedMotion) => lastSound' = "played" ]_vars

\* C18: once the journey page has loaded the words and the progress of the
\* student, the 'Explore the Scene' entry is rendered exactly when every word of
\* the word set has a correct drawing attempt of that student, whatever correct
\* attempts the student has on words of other word sets.
C18_ScenesEntryIffAllDrawn ==
    (J_rendered /\ J_progressLoaded) =>
        (J_scenesShown <=>
            \A w \in Range(words) :
                \E r \in dbWordAttempts : r.student_id = jStudentId /\ r.word_id = w)

\* allObjectsFound of ScenesPage: the completion actions are rendered.
SC_allObjectsFound == \A i \in 1..NumObjects : sceneObjects[i]

\* C19: once the correct spelling of every object of the scene has been reported
\* (onCorrect has run for each, in whatever order) and the callbacks it left
\* pending have run, every object is marked found and the scene is complete.
C19_AllSpelledIsComplete ==
    (route = "scenes" /\ reported = 1..NumObjects /\ timers = EmptyBag)
        => SC_allObjectsFound

\* C20: in every state in which a spelling widget is mounted, from its creation
\* on and across a change of the target word, the tiles in the pool plus the
\* occupied slots number the characters of the current target word.
C20_ConservationAtAllTimes ==
    /\ LB_mounted => Len(availableLetters) + Occupied(placedLetters) = Len(word)
    /\ SI_mounted => Len(siAvailableLetters) + Len(selectedLetters) = Len(SI_word)

\* C21: when the target word of a mounted LetterBank changes (to a word with
\* letters), the effects of that change leave all slots empty, a pool that is a
\* permutation of the new word, the game neither complete nor correct, and they
\* run no evaluation and make no completion call, whatever the slots held before
\* the change.
C21_WordChangeResets ==
    [][ (LB_runEffects /\ "shuffle" \in lbEffects /\ word # << >>)
          => /\ placedLetters' = NullArray(Len(word))
             /\ BagOf(availableLetters') = BagOf(word)
             /\ ~isComplete'
             /\ ~isCorrect'
             /\ lastEval'.widget = "none"
             /\ wordAttempts' = wordAttempts ]_vars

\* The onCorrect calls the mounted SpellingInterface has set going: its pending
\* 1500 ms timers, and the closing timers of those that have fired.
SI_onCorrectCalls ==
    BagCardinality([t \in { u \in BagToSet(timers) :
                              u.own /\ u.kind \in {"correct", "close"} } |-> timers[t]])

\* C22: within one SpellingInterface session, while feedback is 'correct' Check and
\* Reset are disabled, feedback stays 'correct' until the session ends, and the
\* session sets at most one onCorrect call going, whatever timers are pending.
C22_CorrectIsLocked ==
    /\ []((SI_quiescent /\ feedback = "correct")
            => (~ENABLED SI_handleCheck /\ ~ENABLED SI_handleReset))
    /\ [][ (SI_mounted /\ feedback = "correct" /\ spellingObject' = spellingObject)
              => feedback' = "correct" ]_vars
    /\ [](SI_mounted => SI_onCorrectCalls <= 1)

\* C23: an open spelling modal is closed, and the current object of the page is
\* advanced under it, only by its own close action or by the closing timer of
\* its own correct completion; never by a timer left pending by a session that
\* was closed earlier on another object.
C23_StaleTimersAreInert ==
    [][ \A t \in BagToSet(timers) :
          (SI_mounted /\ ~t.own /\ t.obj # spellingObject /\ SS_closeTimeout(t))
             => (spellingObject' = spellingObject
                    /\ currentObjectIndex' = currentObjectIndex) ]_vars

\* C24: in ScenesPage, whenever the list of scene objects is not empty,
\* currentObjectIndex indexes one of its objects: 0 <= currentObjectIndex <
\* sceneObjects.length, whatever finds, delayed next-object callbacks, returns to
\* the scene selection and scene selections have happened.
C24_IndexInRange ==
    (route \in {"scenes", "explore"} /\ Len(sceneObjects) > 0)
        => (0 <= currentObjectIndex /\ currentObjectIndex < Len(sceneObjects))

\* C25: in the drawing page usedHint is true exactly when the hint has been shown
\* at least once, and once true it stays true; so the used_hint logged with an
\* attempt is true exactly when the hint had been shown before that drawing was
\* submitted.  In HintCard onUseHint is called on the first opening and never
\* again: it has been called once if the hint was ever opened, not at all
\* otherwise.
C25_HintUseRecordedOnce ==
    /\ [](route = "draw" => (usedHint <=> hintShown))
    /\ [][usedHint => usedHint']_vars
    /\ [](\A i \in DP_rows : submissions[i].usedHint <=> submissions[i].shown)
    /\ [](route = "hintcard" => onUseHintCalls = (IF hasUsedHint THEN 1 ELSE 0))
    /\ [][(HC_toggleHint /\ ~isOpen) => hasUsedHint']_vars

\* An attempt was logged with used_hint false and, after the hint was shown and
\* hidden again, another with used_hint true.
C25_Witness ==
    /\ route = "draw"
    /\ Len(submissions) = 2
    /\ ~showHint
    /\ submissions[1].stage = "logged" /\ ~submissions[1].usedHint
    /\ submissions[2].stage = "logged" /\ submissions[2].usedHint

\* C26: the response to a recognition reports isCorrect exactly when the
\* confidence the recogniser returned is at least the threshold 0.8, with the
\* feedback 'Excellent' above 0.9, 'Great job' from 0.8 to 0.9, 'Good effort'
\* above 0.5 and below 0.8, 'Nice try' at 0.5 or below; and the drawing page
\* renders 'Continue' only with a result whose isCorrect is true.
C26_ThresholdAndTiers ==
    /\ (route = "draw" /\ result # NoResult /\ recognised # -1)
          => /\ result.isCorrect <=> recognised >= 800
             /\ recognised > 900 => result.feedback = "Excellent"
             /\ (recognised >= 800 /\ recognised <= 900) => result.feedback = "Great job"
             /\ (recognised > 500 /\ recognised < 800) => result.feedback = "Good effort"
             /\ recognised <= 500 => result.feedback = "Nice try"
    /\ DP_continueShown => (result.isCorrect /\ recognised >= 800)

\* The recogniser returned exactly 0.8 and the page offers 'Continue'.
C26_Witness ==
    /\ recognised = 800
    /\ DP_continueShown
    /\ result.feedback = "Great job"

\* C27: within one browser session at most one row is inserted into students,
\* whatever runs of loadStudentProgress overlap, and every run that goes on to
\* load the progress does so for the id the session has stored.
C27_OneStudentPerSession ==
    /\ dbStudents <= 1
    /\ \A i \in 1..Len(loads) :
          loads[i].stage = "queries" => loads[i].sid = sessionStorage

\* A recognition request of the drawing page is in flight: a submission is
\* between its setRecognizing(true) and the end of its handling.
DP_inFlight == { i \in 1..Len(submissions) : submissions[i].stage \in {"fetch", "insert"} }

\* C28: in the drawing page the recognizing flag is true whenever a recognition
\* request is in flight, and every submitted drawing whose handling has ended
\* was recognised and logged as a word attempt, however submissions overlap.
C28_RecognizingCoversRequests ==
    route = "draw" =>
        /\ (DP_inFlight # {} => recognizing)
        /\ \A i \in 1..Len(submissions) :
              submissions[i].stage \in Settled => submissions[i].stage = "logged"

=============================================================================
